---- MODULE Spec2Model ----
(***************************************************************************)
(* Message synchronisation and ordering of the Leenk business chat:        *)
(* the message store, cursor pagination (useMessages), the react-query     *)
(* page cache shown by the chat pages, the send / mark-read / delete       *)
(* mutations, find-or-create of conversations and the away-message         *)
(* trigger.                                                                *)
(***************************************************************************)
EXTENDS Integers, Sequences, FiniteSets

\* ------------------------------------------------------------------ bounds
\* Page size of the model.  The source fixes MESSAGES_PER_PAGE at 20
\* (unnamed/part_003:145); the model scales it down so that a conversation of
\* a few rows already spans several pages.
MESSAGES_PER_PAGE == 2
\* Message ids (the store's UUIDs) are drawn from 1..MaxMsgs.
MaxMsgs == 3
\* Channels a realtime hook may create in a run.
MaxChannels == 3
\* The store clock runs over 1..MaxTime.
MaxTime == 2
\* .limit(...) of the conversation list query.  The source fixes it at 100;
\* the model scales it down so that a business can own more conversations
\* than the list returns.
ListLimit == 2

Null == [null |-> TRUE]

ConvIds == {"c1", "c2", "c3"}
Invocations == {1, 2}
Callers == {1, 2}
NoUser == "<none>"
NoText == "<null>"
BusinessIds == {"b1", "b2"}
Emails == {"ann@x", "bob@x"}
MsgIds == 1..MaxMsgs
Times == 1..MaxTime

VARIABLES
    messages,       \* the store's messages table: a set of rows
    conversations,  \* the store's conversations table: a set of rows
    now,            \* the clock that stamps created_at / updated_at
    pages,          \* react-query's data.pages of useMessages(OpenConv)
    fetch,          \* the page fetch of useMessages(OpenConv) in flight, if any
    push,           \* ids of messages whose INSERT event is still to be delivered
    send,           \* per actor: where its useSendMessage mutation stands
    business,       \* the businesses row of b1: its away-message settings
    away,           \* per invocation: where checkAndSendAwayMessage stands
    foc,            \* per caller: where useFindOrCreateConversation stands
    usedConvs,      \* conversation ids the store has handed out so far
    user,           \* supabase.auth.getUser() of the business client
    del,            \* where useDeleteConversation stands
    mr,             \* where useMarkMessagesAsRead stands
    clean,          \* per conversation: marked read, no customer message since
    rollup,         \* where useConversations.queryFn stands, and its result
    bc,             \* where broadcastMessage stands
    rt,             \* per realtime hook: its effect, channel and the client's channels
    open,           \* the conversationId the chat page passes to useMessages
    feed,           \* events the channel of useRealtimeConversations has still to deliver
    dm,             \* where useDeleteMessage stands
    cache           \* react-query's entries ['messages', id] of the conversations not open

cacheVars == <<pages, fetch>>
awayVars == <<business, away>>
convVars == <<foc, usedConvs, user, del>>
readVars == <<mr, clean, rollup>>
extVars == <<bc, rt, open, feed, dm, cache>>
\* extVars but the feed.
restVars == <<bc, rt, open, dm, cache>>

vars == <<messages, conversations, now, pages, fetch, push, send,
          business, away, foc, usedConvs, user, del, mr, clean, rollup, bc, rt, open, feed, dm, cache>>

Actors == {"business", "customer"}
\* The actor whose chat page (and page cache) is modelled.
Viewer == "business"

\* The conversation the modelled chat page has open.
OpenConv == open
\* conversationId = null: no conversation is selected.
NoConversation == "none"

\* ------------------------------------------------------------ pure helpers
Min(a, b) == IF a < b THEN a ELSE b

Reverse(s) == [i \in 1..Len(s) |-> s[Len(s) + 1 - i]]

RECURSIVE Flatten(_)
Flatten(ps) == IF ps = <<>> THEN <<>> ELSE Head(ps).data \o Flatten(Tail(ps))

Ids(s) == {s[i].id : i \in 1..Len(s)}

Occurrences(s, id) == Cardinality({i \in 1..Len(s) : s[i].id = id})

\* (a.created_at, a.id) < (b.created_at, b.id)
KeyLess(a, b) ==
    \/ a.created_at < b.created_at
    \/ a.created_at = b.created_at /\ a.id < b.id

KeyLeq(a, b) == KeyLess(a, b) \/ (a.created_at = b.created_at /\ a.id = b.id)

\* ------------------------------------------------------ useMessages.queryFn
\* .eq('conversation_id', conversationId) and, with a cursor,
\* .lt('created_at', pageParam.created_at)
MatchingLte(msgs, conv, cursor) ==
    {m \in msgs : /\ m.conversation_id = conv
                  /\ (cursor = Null \/ m.created_at <= cursor.created_at)}

Matching(msgs, conv, cursor) ==
    {m \in msgs : /\ m.conversation_id = conv
                  /\ (cursor = Null \/ m.created_at < cursor.created_at)}

\* .order('created_at', { ascending: false }): the rows in non-increasing
\* created_at; the store is free to return rows of equal created_at in any
\* order, so every such order is a possible answer.
DescOrders(S) ==
    LET n == Cardinality(S) IN
    {s \in [1..n -> S] :
        /\ \A i, j \in 1..n : i # j => s[i] # s[j]
        /\ \A i \in 1..n : i < n => s[i].created_at >= s[i + 1].created_at}

\* .limit(MESSAGES_PER_PAGE + 1)
QueryResults(msgs, conv, cursor) ==
    {SubSeq(s, 1, Min(Len(s), MESSAGES_PER_PAGE + 1)) :
        s \in DescOrders(Matching(msgs, conv, cursor))}

\* BuildPage, had the slice dropped the first (newest) row of the answer.
BuildPageDropNewest(rows) ==
    LET hasMore == Len(rows) > MESSAGES_PER_PAGE
        messagesToReturn == IF hasMore THEN SubSeq(rows, 2, Len(rows)) ELSE rows
        reversed == Reverse(messagesToReturn)
        nextCursor == IF hasMore /\ Len(reversed) > 0
                      THEN [created_at |-> reversed[1].created_at, id |-> reversed[1].id]
                      ELSE Null
    IN [data |-> reversed, nextCursor |-> nextCursor, hasMore |-> hasMore]

\* hasMore, slice, reverse, nextCursor
BuildPage(rows) ==
    LET hasMore == Len(rows) > MESSAGES_PER_PAGE
        messagesToReturn == IF hasMore THEN SubSeq(rows, 1, MESSAGES_PER_PAGE) ELSE rows
        reversed == Reverse(messagesToReturn)
        nextCursor == IF hasMore /\ Len(reversed) > 0
                      THEN [created_at |-> reversed[1].created_at, id |-> reversed[1].id]
                      ELSE Null
    IN [data |-> reversed, nextCursor |-> nextCursor, hasMore |-> hasMore]

\* The pages the query and the page building can answer for (conv, cursor)
\* on the store msgs.
PageResults(msgs, conv, cursor) ==
    {BuildPage(rows) : rows \in QueryResults(msgs, conv, cursor)}

\* queryFn: if (!conversationId) return { data: [], nextCursor: null,
\* hasMore: false }, before any query is made.
QueryFn(msgs, conversationId, pageParam) ==
    IF conversationId = NoConversation
    THEN {[data |-> <<>>, nextCursor |-> Null, hasMore |-> FALSE]}
    ELSE PageResults(msgs, conversationId, pageParam)

\* getNextPageParam: (lastPage) => lastPage.nextCursor
GetNextPageParam(ps) == IF ps = <<>> THEN Null ELSE ps[Len(ps)].nextCursor

\* allMessages = pages.flatMap((page) => page.data)
allMessages == Flatten(pages)

IdleFetch == [kind |-> "idle", acc |-> <<>>, want |-> 0]
ErrorFetch == [kind |-> "error", acc |-> <<>>, want |-> 0]
IdleSend == [pc |-> "idle", id |-> 0, conv |-> "c1", sawMissing |-> FALSE,
             note |-> "none"]
IdleAway == [pc |-> "idle", conv |-> "c1", text |-> NoText, failed |-> FALSE,
             after |-> {}, inserted |-> 0, notified |-> FALSE]
IdleFoc == [pc |-> "idle", email |-> "ann@x", conv |-> "none"]
IdleDel == [pc |-> "idle", conv |-> "c1", msgsOk |-> FALSE, removed |-> 0]
IdleMr == [pc |-> "idle", conv |-> "c1", wasClean |-> FALSE]
Hooks == {"useRealtimeMessages", "useRealtimeConversations"}
IdleHook == [mounted |-> FALSE, pc |-> "idle", scope |-> "none", chan |-> 0,
             live |-> {}, removals |-> [id \in 1..MaxChannels |-> 0], made |-> 0]
IdleBc == [pc |-> "idle", convs |-> {}]
IdleRollup == [pc |-> "idle", list |-> <<>>, counted |-> {}, unread |-> <<>>,
               preview |-> <<>>, erred |-> FALSE]

\* The processes a specification does not run, at rest.
AwayAtRest == business = [away_message_enabled |-> FALSE, away_message |-> NoText]
              /\ away = [i \in Invocations |-> IdleAway]
ConvAtRest == foc = [k \in Callers |-> IdleFoc] /\ usedConvs = {"c1", "c2"}
              /\ user = "b1" /\ del = IdleDel
ReadAtRest == mr = IdleMr /\ clean = [c \in ConvIds |-> FALSE] /\ rollup = IdleRollup
NoEvents == [messages |-> {}, conversations |-> {}]
IdleDm == [pc |-> "idle", id |-> 0, conv |-> "none", by |-> "business"]
\* A query that was never mounted: no data, no fetch.
NoEntry == [pages |-> <<>>, fetch |-> IdleFetch]
NoCache == [c \in ConvIds |-> NoEntry]
ExtAtRest == bc = IdleBc /\ rt = [h \in Hooks |-> IdleHook] /\ open = "c1"
             /\ feed = NoEvents /\ dm = IdleDm /\ cache = NoCache

\* ------------------------------------------- the change feed of the list page
ListHook == "useRealtimeConversations"

\* The channel of useRealtimeConversations is subscribed.
Subscribed == rt[ListHook].chan # 0

\* A change of the messages ids: the channel listens to the messages table
\* without a filter.
EmitMessages(f, ids) ==
    IF Subscribed THEN [f EXCEPT !.messages = @ \cup ids] ELSE f

\* A change of the conversation rows: filter business_id=eq.<businessId>.
EmitConversations(f, rows) ==
    IF Subscribed
    THEN [f EXCEPT !.conversations =
                      @ \cup {r.id : r \in {x \in rows : x.business_id = rt[ListHook].scope}}]
    ELSE f

\* queryClient.invalidateQueries({ queryKey: ['conversations'] }): a list
\* query in the cache is marked invalid, its fetch in flight is cancelled and
\* it is fetched again; with no such query in the cache nothing happens.
InvalidatedList(r) ==
    IF r.pc = "idle" THEN r ELSE [IdleRollup EXCEPT !.pc = "invalidated"]

\* --------------------------------------------------- pagination on a fixed store
Row(id, conv, t) ==
    [id |-> id, conversation_id |-> conv, sender_type |-> "customer",
     sender_id |-> "ann@x", content |-> "hi", image_url |-> NoText,
     status |-> "sent", created_at |-> t]

ConvRow(id, b, e, t) ==
    [id |-> id, business_id |-> b, customer_email |-> e, pinned |-> FALSE,
     updated_at |-> t]

\* Any set of rows with distinct ids, spread over the two conversations, with
\* created_at values that may coincide.
InitPage ==
    /\ \E f \in [MsgIds -> {Null} \cup (ConvIds \X Times)] :
          messages = {Row(i, f[i][1], f[i][2]) : i \in {j \in MsgIds : f[j] # Null}}
    /\ conversations = {ConvRow("c1", "b1", "ann@x", 1), ConvRow("c2", "b1", "bob@x", 1)}
    /\ now = MaxTime
    /\ pages = <<>>
    /\ fetch = IdleFetch
    /\ push = {}
    /\ send = [a \in Actors |-> IdleSend]
    /\ AwayAtRest /\ ConvAtRest /\ ReadAtRest
    /\ ExtAtRest

\* One call of the page fetch: the first with pageParam null, each later one
\* with the nextCursor of the page before, until hasMore is false.
FetchPage ==
    /\ IF pages = <<>> THEN TRUE ELSE pages[Len(pages)].hasMore
    /\ \E p \in QueryFn(messages, OpenConv, GetNextPageParam(pages)) :
          pages' = Append(pages, p)
    /\ UNCHANGED <<messages, conversations, now, fetch, push, send, awayVars, convVars, readVars, extVars>>

NextPage == FetchPage

SpecPage == InitPage /\ [][NextPage]_vars

PagingDone == IF pages = <<>> THEN FALSE ELSE ~pages[Len(pages)].hasMore

\* What the repeated fetch yields: the pages put in age order, oldest page
\* first (each page is oldest-first already).
Yield == Flatten(Reverse(pages))

ConvMessages(conv) == {m \in messages : m.conversation_id = conv}

StrictlyIncreasing(s) == \A i \in 1..Len(s) : i < Len(s) => KeyLess(s[i], s[i + 1])

\* C3 (P3): once hasMore is false, the fetched pages hold every message of the
\* conversation, each exactly once, in strictly increasing (created_at, id).
P3_PaginationComplete ==
    PagingDone =>
        /\ \A m \in ConvMessages(OpenConv) : Occurrences(Yield, m.id) = 1
        /\ Ids(Yield) \subseteq {m.id : m \in ConvMessages(OpenConv)}
        /\ StrictlyIncreasing(Yield)

\* The store of Scenario A: three messages, two of them with one created_at
\* and the third later.
ScenarioAStore ==
    /\ Cardinality(ConvMessages(OpenConv)) = 3
    /\ \E a, b, c \in ConvMessages(OpenConv) :
          /\ a # b
          /\ a.created_at = b.created_at
          /\ a.created_at < c.created_at

\* C4 (Scenario A): with created_at [09:00, 09:00, 09:01] and page size 2, two
\* page fetches return all three messages exactly once and the second
\* reports hasMore = false; no message of the tied timestamp is skipped.
ScenarioA_TieAcrossPages ==
    (ScenarioAStore /\ MESSAGES_PER_PAGE = 2 /\ Len(pages) = 2) =>
        /\ ~pages[2].hasMore
        /\ \A m \in ConvMessages(OpenConv) : Occurrences(allMessages, m.id) = 1
\* ------------------------------------------------------------ message store
UsedIds == {m.id : m \in messages}

ConversationExists(convs, conv) == \E c \in convs : c.id = conv

\* messages.conversation_id references conversations.id: a row can be inserted
\* only into a conversation that exists.
MessageInsertOk(convs, conv) == ConversationExists(convs, conv)

MessageRow(id, conv, stype, sid, content, t) ==
    [id |-> id, conversation_id |-> conv, sender_type |-> stype,
     sender_id |-> sid, content |-> content, image_url |-> NoText,
     status |-> "sent", created_at |-> t]

\* The timestamps the clock can give an insert made now: the same instant as
\* the insert before it, or a later one.
Stamps == {t \in {now, now + 1} : t <= MaxTime}

SenderId(a) == IF a = "business" THEN "b1" ELSE "ann@x"

\* ---------------------------------------------- react-query cache of useMessages
\* queryClient.invalidateQueries({ queryKey: ['messages', conversationId] }):
\* the fetch in flight is cancelled and every loaded page is fetched again,
\* the first from the null cursor.
Invalidated(ps) ==
    [kind |-> "refetch", acc |-> <<>>, want |-> IF Len(ps) = 0 THEN 1 ELSE Len(ps)]

\* One page of a refetch arrives; with the last one the cache is replaced.
\* if (error) throw error: the query goes to its error state and the pages
\* loaded before stay as they are.
RefetchStep ==
    /\ fetch.kind = "refetch"
    /\ \E error \in BOOLEAN :
          IF error THEN pages' = pages /\ fetch' = ErrorFetch
          ELSE
          \E p \in PageResults(messages, OpenConv, GetNextPageParam(fetch.acc)) :
             LET acc == Append(fetch.acc, p) IN
             IF Len(acc) = fetch.want \/ p.nextCursor = Null
             THEN pages' = acc /\ fetch' = IdleFetch
             ELSE pages' = pages /\ fetch' = [fetch EXCEPT !.acc = acc]
    /\ UNCHANGED <<messages, conversations, now, push, send, awayVars, convVars, readVars, extVars>>

\* 'Load older messages': messagesQuery.fetchNextPage(), offered while
\* hasNextPage and not already fetching the next page.
FetchNextPage ==
    /\ pages # <<>>
    /\ GetNextPageParam(pages) # Null
    /\ fetch.kind # "next"
    /\ fetch' = [kind |-> "next", acc |-> <<>>, want |-> 1]
    /\ UNCHANGED <<messages, conversations, now, pages, push, send, awayVars, convVars, readVars, extVars>>

\* The older page arrives and is added after the pages already loaded.
NextPageStep ==
    /\ fetch.kind = "next"
    /\ \E error \in BOOLEAN :
          IF error THEN pages' = pages /\ fetch' = ErrorFetch
          ELSE /\ \E p \in PageResults(messages, OpenConv, GetNextPageParam(pages)) :
                     pages' = Append(pages, p)
               /\ fetch' = IdleFetch
    /\ UNCHANGED <<messages, conversations, now, push, send, awayVars, convVars, readVars, extVars>>

\* ------------------------------------------------------- useRealtimeMessages
\* The channel callback: any event on a message of the open conversation
\* invalidates the messages query, and the conversation list query too.
PushDeliver ==
    \E e \in push :
        /\ push' = push \ {e}
        /\ fetch' = Invalidated(pages)
        /\ rollup' = InvalidatedList(rollup)
        /\ UNCHANGED <<messages, conversations, now, pages, send, awayVars, convVars,
                       mr, clean, extVars>>

\* ------------------------------------------------------------ useSendMessage
\* What can happen while the notification is prepared and dispatched: the
\* conversation or the business is not found, a lookup throws, the e-mail is
\* dispatched, or its dispatch fails.
NotifyOutcomes == {"noConversation", "noBusiness", "lookupThrows", "dispatched",
                   "dispatchFails"}
Dispatches(o) == o \in {"dispatched", "dispatchFails"}

\* updated_at of conversation conv, as it stands in the store.
UpdatedAt(convs, conv) == (CHOOSE c \in convs : c.id = conv).updated_at

\* mutationFn, the insert: .insert({ ...message, status: 'sent' }).
\* A customer message in a conversation marked read makes it unread again.
SendInsert(a, c) ==
    /\ send[a].pc \in {"idle", "failed"}
    /\ MessageInsertOk(conversations, c)
    /\ \E id \in MsgIds \ UsedIds, t \in Stamps :
          /\ messages' = messages \cup {MessageRow(id, c, a, SenderId(a), "hi", t)}
          /\ now' = t
          /\ push' = IF c = OpenConv THEN push \cup {id} ELSE push
          /\ send' = [send EXCEPT ![a] =
                        [pc |-> "inserted", id |-> id, conv |-> c, sawMissing |-> FALSE,
                         note |-> "none"]]
          /\ feed' = EmitMessages(feed, {id})
    /\ clean' = IF a = "customer" THEN [clean EXCEPT ![c] = FALSE] ELSE clean
    /\ UNCHANGED <<conversations, cacheVars, awayVars, convVars, mr, rollup, restVars>>

\* SendInsertFails, had the page kept an entry for the failed message.
SendInsertFailsShown(a, c) ==
    /\ send[a].pc = "idle"
    /\ send' = [send EXCEPT ![a] =
                  [pc |-> "failed", id |-> 0, conv |-> c,
                   sawMissing |-> ~ConversationExists(conversations, c),
                   note |-> "none"]]
    /\ pages' = IF a = Viewer /\ pages # <<>>
                THEN [pages EXCEPT ![Len(pages)].data =
                        Append(@, [MessageRow(0, c, a, SenderId(a), "hi", now)
                                      EXCEPT !.status = "failed"])]
                ELSE pages
    /\ UNCHANGED <<messages, conversations, now, push, fetch, awayVars,
                   convVars, readVars, extVars>>

\* mutationFn, the insert answered with an error (the store failed, or the
\* conversation is gone): if (error) throw error
SendInsertFails(a, c) ==
    /\ send[a].pc = "idle"
    /\ send' = [send EXCEPT ![a] =
                  [pc |-> "failed", id |-> 0, conv |-> c,
                   sawMissing |-> ~ConversationExists(conversations, c),
                   note |-> "none"]]
    /\ UNCHANGED <<messages, conversations, now, push, cacheVars, awayVars,
                   convVars, readVars, extVars>>

\* mutationFn: update conversations set updated_at = now where id = conversation_id
BumpUpdatedAt(convs, conv, t) ==
    {IF c.id = conv THEN [c EXCEPT !.updated_at = t] ELSE c : c \in convs}

\* The update is awaited and its result is not looked at: when it fails the
\* send goes on.
SendBump(a) ==
    /\ send[a].pc = "inserted"
    /\ \E error \in BOOLEAN :
          /\ conversations' = IF error THEN conversations
                              ELSE BumpUpdatedAt(conversations, send[a].conv, now)
          /\ feed' = IF error THEN feed
                     ELSE EmitConversations(feed, {r \in conversations : r.id = send[a].conv})
    /\ send' = [send EXCEPT ![a].pc = "bumped"]
    /\ UNCHANGED <<messages, now, push, cacheVars, awayVars, convVars, readVars, restVars>>

\* SendSuccess, had onSuccess also written the returned row into the cache.
SendSuccessAppend(a, o) ==
    /\ send[a].pc = "bumped"
    /\ send' = [send EXCEPT ![a].pc = "idle", ![a].note = o]
    /\ fetch' = IF a = Viewer /\ send[a].conv = OpenConv THEN Invalidated(pages) ELSE fetch
    /\ pages' = IF a = Viewer /\ pages # <<>>
                THEN [pages EXCEPT ![Len(pages)].data =
                        Append(@, CHOOSE m \in messages : m.id = send[a].id)]
                ELSE pages
    /\ rollup' = IF a = Viewer THEN InvalidatedList(rollup) ELSE rollup
    /\ UNCHANGED <<messages, conversations, now, push, awayVars, convVars, mr, clean, extVars>>

\* SendSuccess, had a throwing lookup or a failed dispatch failed the send.
SendSuccessUnlessNotifyFails(a, o) ==
    /\ send[a].pc = "bumped"
    /\ send' = [send EXCEPT ![a].pc = IF o \in {"lookupThrows", "dispatchFails"}
                                      THEN "failed" ELSE "idle",
                            ![a].note = o]
    /\ fetch' = IF a = Viewer /\ send[a].conv = OpenConv
                   /\ o \notin {"lookupThrows", "dispatchFails"}
                THEN Invalidated(pages) ELSE fetch
    /\ rollup' = IF a = Viewer /\ o \notin {"lookupThrows", "dispatchFails"}
                 THEN InvalidatedList(rollup) ELSE rollup
    /\ UNCHANGED <<messages, conversations, now, pages, push, awayVars, convVars, mr, clean, extVars>>

\* The notification is prepared inside try/catch (conversation and business
\* lookups, if (!conversation) return messageData, dispatch with .catch) with
\* outcome o; mutationFn returns the inserted row whatever o is, and
\* onSuccess invalidates the messages query of the sender's own page and its
\* conversation list query.
SendSuccess(a, o) ==
    /\ send[a].pc = "bumped"
    /\ send' = [send EXCEPT ![a].pc = "idle", ![a].note = o]
    /\ fetch' = IF a = Viewer /\ send[a].conv = OpenConv THEN Invalidated(pages) ELSE fetch
    /\ rollup' = IF a = Viewer THEN InvalidatedList(rollup) ELSE rollup
    /\ UNCHANGED <<messages, conversations, now, pages, push, awayVars, convVars, mr, clean, extVars>>

InitSync ==
    /\ messages = {}
    /\ conversations = {ConvRow("c1", "b1", "ann@x", 1)}
    /\ now = 1
    /\ pages = <<>>
    /\ fetch = Invalidated(<<>>)
    /\ push = {}
    /\ send = [a \in Actors |-> IdleSend]
    /\ AwayAtRest /\ ConvAtRest /\ ReadAtRest
    /\ ExtAtRest

NextSync ==
    \/ RefetchStep
    \/ FetchNextPage
    \/ NextPageStep
    \/ PushDeliver
    \/ \E a \in Actors : SendInsert(a, OpenConv)
    \/ \E a \in Actors : SendInsertFails(a, OpenConv)
    \/ \E a \in Actors : SendBump(a)
    \/ \E a \in Actors : SendSuccess(a, "dispatched")

SpecSync == InitSync /\ [][NextSync]_vars

P2_MonotonicOrder ==
    \A i \in 1..Len(allMessages) :
        i < Len(allMessages) => KeyLeq(allMessages[i], allMessages[i + 1])
\* Scenario B: the viewer's send of M is still waiting for its response and
\* the push INSERT for M has already been handled.
AwaitingResponse == send[Viewer].pc \in {"inserted", "bumped"}
InScenarioB == AwaitingResponse /\ send[Viewer].id \notin push

SendFailsNow(a) == send[a].pc # "failed" /\ send'[a].pc = "failed"

FalsyNullOnly(text) == text = NoText

\* !away_message: null and the empty string are both falsy.
Falsy(text) == text \in {NoText, ""}

\* The existence check, had it looked for a customer-sent row.
AwayAlreadySentByCustomer(msgs, conv, businessId, text, checkError) ==
    /\ ~checkError
    /\ \E m \in msgs : /\ m.conversation_id = conv
                       /\ m.sender_type = "customer"
                       /\ m.sender_id = businessId
                       /\ m.content = text

\* if (existingAwayMessage && !checkError) return: a row of this conversation
\* sent by the business with exactly the away text was found, and the check
\* itself did not fail.
AwayAlreadySent(msgs, conv, businessId, text, checkError) ==
    /\ ~checkError
    /\ \E m \in msgs : /\ m.conversation_id = conv
                       /\ m.sender_type = "business"
                       /\ m.sender_id = businessId
                       /\ m.content = text

\* The trigger is called: by the customer's chat page when the conversation
\* has loaded, or by find-or-create after it created the conversation.
AwayCall(i, c) ==
    [IdleAway EXCEPT !.pc = "business", !.conv = c,
                     !.after = {j \in Invocations : away[j].pc = "done"}]

AwayStart(i) ==
    /\ away[i].pc = "idle"
    /\ ConversationExists(conversations, OpenConv)
    /\ away' = [away EXCEPT ![i] = AwayCall(i, OpenConv)]
    /\ UNCHANGED <<messages, conversations, now, push, send, cacheVars, business,
                   convVars, readVars, extVars>>

\* The businesses row is read: if (error || !business) return; then
\* if (!away_message_enabled || !away_message) return.
AwayReadBusiness(i) ==
    /\ away[i].pc = "business"
    /\ \E error \in BOOLEAN :
          away' = [away EXCEPT ![i] =
             IF error
             THEN [@ EXCEPT !.pc = "done", !.failed = TRUE]
             ELSE IF ~business.away_message_enabled \/ Falsy(business.away_message)
             THEN [@ EXCEPT !.pc = "done"]
             ELSE [@ EXCEPT !.pc = "check", !.text = business.away_message]]
    /\ UNCHANGED <<messages, conversations, now, push, send, cacheVars, business,
                   convVars, readVars, extVars>>

\* The existence check; it can itself come back with an error.
AwayCheck(i) ==
    /\ away[i].pc = "check"
    /\ \E checkError \in BOOLEAN :
          away' = [away EXCEPT ![i] =
             IF AwayAlreadySent(messages, away[i].conv, "b1", away[i].text, checkError)
             THEN [@ EXCEPT !.pc = "done"]
             ELSE [@ EXCEPT !.pc = "insert", !.failed = @ \/ checkError]]
    /\ UNCHANGED <<messages, conversations, now, push, send, cacheVars, business,
                   convVars, readVars, extVars>>

\* AwayInsert, had it looked again for the away message before inserting.
AwayInsertIfAbsent(i) ==
    /\ away[i].pc = "insert"
    /\ MessageInsertOk(conversations, away[i].conv)
    /\ IF AwayAlreadySent(messages, away[i].conv, "b1", away[i].text, FALSE)
       THEN /\ away' = [away EXCEPT ![i].pc = "done"]
            /\ UNCHANGED <<messages, now, push>>
       ELSE \E id \in MsgIds \ UsedIds, t \in Stamps :
               /\ messages' = messages \cup
                     {MessageRow(id, away[i].conv, "business", "b1", away[i].text, t)}
               /\ now' = t
               /\ push' = IF away[i].conv = OpenConv THEN push \cup {id} ELSE push
               /\ away' = [away EXCEPT ![i].pc = "bump", ![i].inserted = id]
    /\ UNCHANGED <<conversations, send, cacheVars, business, convVars, readVars, extVars>>

\* The away message is inserted.
AwayInsert(i) ==
    /\ away[i].pc = "insert"
    /\ MessageInsertOk(conversations, away[i].conv)
    /\ \E id \in MsgIds \ UsedIds, t \in Stamps :
          /\ messages' = messages \cup
                {MessageRow(id, away[i].conv, "business", "b1", away[i].text, t)}
          /\ now' = t
          /\ push' = IF away[i].conv = OpenConv THEN push \cup {id} ELSE push
          /\ away' = [away EXCEPT ![i].pc = "bump", ![i].inserted = id]
    /\ UNCHANGED <<conversations, send, cacheVars, business, convVars, readVars, extVars>>

\* if (insertError) { console.error(...); return }
AwayInsertFails(i) ==
    /\ away[i].pc = "insert"
    /\ away' = [away EXCEPT ![i].pc = "done", ![i].failed = TRUE]
    /\ UNCHANGED <<messages, conversations, now, push, send, cacheVars, business,
                   convVars, readVars, extVars>>

\* update conversations set updated_at = now where id = conversationId; the
\* result of the update is not looked at.
AwayBump(i) ==
    /\ away[i].pc = "bump"
    /\ \E error \in BOOLEAN :
          /\ conversations' = IF error THEN conversations
                              ELSE BumpUpdatedAt(conversations, away[i].conv, now)
          /\ away' = [away EXCEPT ![i].pc = "notify", ![i].failed = @ \/ error]
    /\ UNCHANGED <<messages, now, push, send, cacheVars, business, convVars, readVars, extVars>>

\* if (insertedMessage) { try { ...sendEmailNotification(...).catch(...) }
\* catch { console.error } }: whatever the outcome, the trigger returns.
AwayNotify(i, o) ==
    /\ away[i].pc = "notify"
    /\ away' = [away EXCEPT ![i].pc = "done", ![i].notified = Dispatches(o)]
    /\ UNCHANGED <<messages, conversations, now, push, send, cacheVars, business,
                   convVars, readVars, extVars>>

AwayTexts == {NoText, "", "Away"}

InitAway ==
    /\ messages \in {{}, {MessageRow(1, "c1", "customer", "ann@x", "hi", 1)}}
    /\ conversations = {ConvRow("c1", "b1", "ann@x", 1)}
    /\ now = 1
    /\ pages = <<>> /\ fetch = IdleFetch /\ push = {}
    /\ send = [a \in Actors |-> IdleSend]
    /\ business \in [away_message_enabled : BOOLEAN, away_message : AwayTexts]
    /\ away = [i \in Invocations |-> IdleAway]
    /\ ConvAtRest /\ ReadAtRest
    /\ ExtAtRest

NextAway ==
    \/ \E i \in Invocations : AwayStart(i)
    \/ \E i \in Invocations : AwayReadBusiness(i)
    \/ \E i \in Invocations : AwayCheck(i)
    \/ \E i \in Invocations : AwayInsert(i)
    \/ \E i \in Invocations : AwayInsertFails(i)
    \/ \E i \in Invocations : AwayBump(i)
    \/ \E i \in Invocations, o \in NotifyOutcomes : AwayNotify(i, o)

SpecAway == InitAway /\ [][NextAway]_vars

AwayConfigured == business.away_message_enabled /\ ~Falsy(business.away_message)

AwayRows(conv) ==
    {m \in messages : /\ m.conversation_id = conv
                      /\ m.sender_type = "business"
                      /\ m.sender_id = "b1"
                      /\ m.content = business.away_message}

\* Invocation j was called after invocation i had returned, and has returned.
CalledInSequence(i, j) == i \in away[j].after /\ away[j].pc = "done"

\* C6 (P4): with the away message enabled and non-empty and no store
\* failure, two calls made one after the other leave exactly one away
\* message in the conversation.
P4_IdempotentAway ==
    \A i, j \in Invocations :
        (AwayConfigured /\ CalledInSequence(i, j) /\ ~away[i].failed /\ ~away[j].failed)
            => Cardinality(AwayRows(OpenConv)) = 1

\* Two calls in sequence without failure: the first inserted, the second
\* found the row and inserted nothing.
W_P4 ==
    \E i, j \in Invocations :
        /\ AwayConfigured /\ CalledInSequence(i, j)
        /\ ~away[i].failed /\ ~away[j].failed
        /\ away[i].inserted # 0 /\ away[j].inserted = 0

\* Invocation i gets the answer to its read of the businesses row in this step.
AwayReads(i) == away[i].pc = "business" /\ away'[i].pc # "business"

\* C15: an invocation that finds the away message disabled, null or empty,
\* or cannot read the business, returns at once: it inserts no message,
\* leaves the conversations untouched and sends no notification, and does
\* nothing after it returned.
AwayNoOpWhenDisabled ==
    [][\A i \in Invocations :
          /\ (AwayReads(i) /\ (\/ ~business.away_message_enabled
                                \/ business.away_message \in {NoText, ""}
                                \/ away'[i].failed))
                => /\ away'[i].pc = "done"
                   /\ away'[i].inserted = 0 /\ ~away'[i].notified
                   /\ messages' = messages /\ conversations' = conversations
          /\ away[i].pc = "done" => away'[i] = away[i]
      ]_vars

\* One invocation returned on an enabled but empty away message, another on
\* a failed read of the business.
W_AwayNoOp ==
    \E i, j \in Invocations :
        /\ away[i].pc = "done" /\ ~away[i].failed /\ away[i].inserted = 0
        /\ business.away_message_enabled /\ business.away_message = ""
        /\ away[j].pc = "done" /\ away[j].failed /\ away[j].text = NoText

\* Invocation i gets the answer to its insert in this step.
AwayInsertAnswered(i) == away[i].pc = "insert" /\ away'[i].pc # "insert"

Existing(convs, businessId, email) ==
    {c \in convs : c.business_id = businessId /\ c.customer_email = email}

\* The store without the unique constraint: every insert goes through.
ConversationInsertAlways(convs, businessId, email) == TRUE

\* The unique constraint on conversations (business_id, customer_email) that
\* the insert relies on.
ConversationInsertOk(convs, businessId, email) ==
    Existing(convs, businessId, email) = {}

\* mutationFn up to the lookup's answer.
FocLookup(k) ==
    /\ foc[k].pc \in {"idle", "done", "failed"}
    /\ \E e \in Emails, named \in BOOLEAN :
          LET found == Existing(conversations, "b1", e) IN
          foc' = [foc EXCEPT ![k] =
             IF Cardinality(found) = 1
             THEN [pc |-> IF named THEN "update" ELSE "done", email |-> e,
                   conv |-> (CHOOSE c \in found : TRUE).id]
             ELSE [pc |-> "insert", email |-> e, conv |-> "none"]]
    /\ UNCHANGED <<messages, conversations, now, push, send, cacheVars, awayVars,
                   usedConvs, user, del, readVars, extVars>>

\* if (customerName || customerPhone): update the row found, .select().single()
FocUpdate(k) ==
    /\ foc[k].pc = "update"
    /\ IF ConversationExists(conversations, foc[k].conv)
       THEN /\ conversations' = BumpUpdatedAt(conversations, foc[k].conv, now)
            /\ foc' = [foc EXCEPT ![k].pc = "done"]
       ELSE /\ conversations' = conversations
            /\ foc' = [foc EXCEPT ![k].pc = "failed"]
    /\ UNCHANGED <<messages, now, push, send, cacheVars, awayVars, usedConvs, user,
                   del, readVars, extVars>>

\* The insert of the new conversation; on success the away trigger is fired
\* for it without being awaited.
FocInsert(k) ==
    /\ foc[k].pc = "insert"
    /\ ConversationInsertOk(conversations, "b1", foc[k].email)
    /\ \E id \in ConvIds \ usedConvs :
          /\ conversations' = conversations \cup {ConvRow(id, "b1", foc[k].email, now)}
          /\ usedConvs' = usedConvs \cup {id}
          /\ foc' = [foc EXCEPT ![k].pc = "done", ![k].conv = id]
          /\ away' = IF away[k].pc = "idle"
                     THEN [away EXCEPT ![k] = AwayCall(k, id)]
                     ELSE away
    /\ UNCHANGED <<messages, now, push, send, cacheVars, business, user, del, readVars, extVars>>

\* if (error) throw error: the insert was refused.
FocInsertFails(k) ==
    /\ foc[k].pc = "insert"
    /\ foc' = [foc EXCEPT ![k].pc = "failed"]
    /\ UNCHANGED <<messages, conversations, now, push, send, cacheVars, awayVars,
                   usedConvs, user, del, readVars, extVars>>

\* ------------------------------------------------------ useDeleteConversation
\* DelVerify, had it not compared the conversation's business_id with the user.
DelVerifyAnyOwner(c) ==
    /\ del.pc \in {"idle", "done", "failed"}
    /\ \E fetchError \in BOOLEAN :
          del' = IF /\ user # NoUser
                    /\ ~fetchError
                    /\ \E r \in conversations : r.id = c
                 THEN [pc |-> "verified", conv |-> c, msgsOk |-> FALSE, removed |-> 0]
                 ELSE [pc |-> "failed", conv |-> c, msgsOk |-> FALSE, removed |-> 0]
    /\ UNCHANGED <<messages, conversations, now, push, send, cacheVars, awayVars,
                   foc, usedConvs, user, readVars, extVars>>

\* getUser, then the ownership check on the conversation row.
DelVerify(c) ==
    /\ del.pc \in {"idle", "done", "failed"}
    /\ \E fetchError \in BOOLEAN :
          del' = IF /\ user # NoUser
                    /\ ~fetchError
                    /\ \E r \in conversations : r.id = c /\ r.business_id = user
                 THEN [pc |-> "verified", conv |-> c, msgsOk |-> FALSE, removed |-> 0]
                 ELSE [pc |-> "failed", conv |-> c, msgsOk |-> FALSE, removed |-> 0]
    /\ UNCHANGED <<messages, conversations, now, push, send, cacheVars, awayVars,
                   foc, usedConvs, user, readVars, extVars>>

\* The delete of the messages, had a failure of it been ignored.
DelMessagesIgnoringError ==
    /\ del.pc = "verified"
    /\ \E messagesError \in BOOLEAN :
          IF messagesError
          THEN /\ messages' = messages
               /\ del' = [del EXCEPT !.pc = "messages"]
          ELSE /\ messages' = {m \in messages : m.conversation_id # del.conv}
               /\ del' = [del EXCEPT !.pc = "messages", !.msgsOk = TRUE,
                            !.removed = Cardinality(ConvMessages(del.conv))]
    /\ UNCHANGED <<conversations, now, push, send, cacheVars, awayVars, foc,
                   usedConvs, user, readVars, extVars>>

\* delete from messages where conversation_id = conversationId;
\* if (messagesError) throw messagesError
DelMessages ==
    /\ del.pc = "verified"
    /\ \E messagesError \in BOOLEAN :
          IF messagesError
          THEN /\ messages' = messages
               /\ del' = [del EXCEPT !.pc = "failed"]
          ELSE /\ messages' = {m \in messages : m.conversation_id # del.conv}
               /\ del' = [del EXCEPT !.pc = "messages", !.msgsOk = TRUE,
                            !.removed = Cardinality(ConvMessages(del.conv))]
    /\ UNCHANGED <<conversations, now, push, send, cacheVars, awayVars, foc,
                   usedConvs, user, readVars, extVars>>

\* ConversationDeleteOk, had the store let a referenced row go.
ConversationDeleteAlways(msgs, c) == TRUE

\* The conversation row can go only when no message refers to it.
ConversationDeleteOk(msgs, c) == \A m \in msgs : m.conversation_id # c

\* delete from conversations where id = conversationId;
\* if (conversationError) throw conversationError
DelConversation ==
    /\ del.pc = "messages"
    /\ \E conversationError \in BOOLEAN :
          IF conversationError \/ ~ConversationDeleteOk(messages, del.conv)
          THEN /\ conversations' = conversations
               /\ del' = [del EXCEPT !.pc = "failed"]
          ELSE /\ conversations' = {r \in conversations : r.id # del.conv}
               /\ del' = [del EXCEPT !.pc = "done"]
    /\ UNCHANGED <<messages, now, push, send, cacheVars, awayVars, foc, usedConvs,
                   user, readVars, extVars>>

InitFoc ==
    /\ messages = {}
    /\ conversations \in {{}, {ConvRow("c1", "b1", "ann@x", 1)}}
    /\ usedConvs = {r.id : r \in conversations}
    /\ now = 1
    /\ pages = <<>> /\ fetch = IdleFetch /\ push = {}
    /\ send = [a \in Actors |-> IdleSend]
    /\ business = [away_message_enabled |-> TRUE, away_message |-> "Away"]
    /\ away = [i \in Invocations |-> IdleAway]
    /\ foc = [k \in Callers |-> IdleFoc]
    /\ user = "b1"
    /\ del = IdleDel
    /\ ReadAtRest
    /\ ExtAtRest

NextFoc ==
    \/ \E k \in Callers : FocLookup(k)
    \/ \E k \in Callers : FocUpdate(k)
    \/ \E k \in Callers : FocInsert(k)
    \/ \E k \in Callers : FocInsertFails(k)
    \/ \E i \in Invocations : AwayReadBusiness(i)
    \/ \E i \in Invocations : AwayCheck(i)
    \/ \E i \in Invocations : AwayInsert(i)
    \/ \E i \in Invocations : AwayInsertFails(i)
    \/ \E i \in Invocations : AwayBump(i)
    \/ \E i \in Invocations : AwayNotify(i, "dispatched")

SpecFoc == InitFoc /\ [][NextFoc]_vars

InitDel ==
    /\ messages = {}
    /\ conversations = {ConvRow("c1", "b1", "ann@x", 1), ConvRow("c2", "b2", "bob@x", 1)}
    /\ usedConvs = {"c1", "c2"}
    /\ now = 1
    /\ pages = <<>> /\ fetch = IdleFetch /\ push = {}
    /\ send = [a \in Actors |-> IdleSend]
    /\ AwayAtRest
    /\ foc = [k \in Callers |-> IdleFoc]
    /\ user \in {"b1", "b2", NoUser}
    /\ del = IdleDel
    /\ ReadAtRest
    /\ ExtAtRest

NextDel ==
    \/ \E c \in ConvIds : DelVerify(c)
    \/ DelMessages
    \/ DelConversation
    \/ \E c \in ConvIds : SendInsert("customer", c)
    \/ \E c \in ConvIds : SendInsertFails("customer", c)
    \/ SendBump("customer")
    \/ SendSuccess("customer", "dispatched")

SpecDel == InitDel /\ [][NextDel]_vars

ConvRowIds(convs) == {r.id : r \in convs}

\* The send leaves "idle" in this step: its insert is attempted.
SendStarts(a) == send[a].pc = "idle" /\ send'[a].pc # "idle"

Unread(m) == m.sender_type = "customer" /\ m.status \in {"sent", "delivered"}

\* The rows of the update, had it been filtered on business-sent messages.
MarkReadTargetsBusiness(msgs, c) ==
    {m \in msgs : /\ m.conversation_id = c
                  /\ m.sender_type = "business"
                  /\ m.status \in {"sent", "delivered"}}

\* .eq('conversation_id', c).eq('sender_type', 'customer')
\* .in('status', ['sent', 'delivered'])
MarkReadTargets(msgs, c) == {m \in msgs : m.conversation_id = c /\ Unread(m)}

\* MarkRead, had the update not been filtered on the conversation.
MarkReadEveryConversation(msgs, c) ==
    LET targets == {m \in msgs : Unread(m)} IN
    (msgs \ targets) \cup {[m EXCEPT !.status = "read"] : m \in targets}

\* .update({ status: 'read' }) of those rows
MarkRead(msgs, c) ==
    LET targets == MarkReadTargets(msgs, c) IN
    (msgs \ targets) \cup {[m EXCEPT !.status = "read"] : m \in targets}

\* getUser: if (!user) throw new Error('Not authenticated')
MrStart(c) ==
    /\ mr.pc \in {"idle", "done", "failed"}
    /\ mr' = [pc |-> IF user = NoUser THEN "failed" ELSE "update", conv |-> c,
              wasClean |-> FALSE]
    /\ UNCHANGED <<messages, conversations, now, push, send, cacheVars, awayVars,
                   convVars, clean, rollup, extVars>>

\* The batch update; on success onSuccess invalidates the messages query of
\* the conversation and the conversation list query.
MrUpdate ==
    /\ mr.pc = "update"
    /\ \E error \in BOOLEAN :
          IF error
          THEN /\ mr' = [mr EXCEPT !.pc = "failed"]
               /\ UNCHANGED <<messages, clean, fetch, rollup, push, feed>>
          ELSE /\ messages' = MarkRead(messages, mr.conv)
               /\ mr' = [mr EXCEPT !.pc = "done", !.wasClean = clean[mr.conv]]
               /\ clean' = [clean EXCEPT ![mr.conv] = TRUE]
               /\ fetch' = IF mr.conv = OpenConv THEN Invalidated(pages) ELSE fetch
               /\ rollup' = InvalidatedList(rollup)
               /\ push' = IF mr.conv = OpenConv
                          THEN push \cup {m.id : m \in MarkReadTargets(messages, mr.conv)}
                          ELSE push
               /\ feed' = EmitMessages(feed, {m.id : m \in MarkReadTargets(messages, mr.conv)})
    /\ UNCHANGED <<conversations, now, send, pages, awayVars, convVars, restVars>>

\* ------------------------------------------------- useConversations.queryFn
UnreadCount(msgs, c) == Cardinality({m \in msgs : m.conversation_id = c /\ Unread(m)})

\* The list query, had it been ordered by updated_at alone.
ListOrdersByUpdatedAt(convs, businessId) ==
    LET S == {r \in convs : r.business_id = businessId}
        n == Cardinality(S)
        Before(a, b) == a.updated_at >= b.updated_at
    IN {SubSeq(s, 1, Min(n, ListLimit)) : s \in
          {t \in [1..n -> S] : /\ \A i, j \in 1..n : i # j => t[i] # t[j]
                              /\ \A i \in 1..n : i < n => Before(t[i], t[i + 1])}}

\* .eq('business_id', user.id).order('pinned', desc).order('updated_at', desc)
\* .limit(100): every order of the business's rows the two sort keys allow.
ListOrders(convs, businessId) ==
    LET S == {r \in convs : r.business_id = businessId}
        n == Cardinality(S)
        Before(a, b) == \/ a.pinned /\ ~b.pinned
                        \/ a.pinned = b.pinned /\ a.updated_at >= b.updated_at
    IN {SubSeq(s, 1, Min(n, ListLimit)) : s \in
          {t \in [1..n -> S] : /\ \A i, j \in 1..n : i # j => t[i] # t[j]
                              /\ \A i \in 1..n : i < n => Before(t[i], t[i + 1])}}

\* The preview text of a latest message: its content if it has one, else
\* 'Image' if it has an image_url, else ''.
PreviewOf(m) ==
    IF m.content \notin {NoText, ""} THEN m.content
    ELSE IF m.image_url \notin {NoText, ""} THEN "Image"
    ELSE ""

\* .order('created_at', desc).limit(1): a row with the greatest created_at.
LatestRows(msgs, c) ==
    LET S == {m \in msgs : m.conversation_id = c} IN
    {x \in S : \A y \in S : y.created_at <= x.created_at}

\* The preview the roll-up builds: '' when the query gave no row, which is
\* also what a failed query gives (its error is not read).
LatestPreviews(msgs, c, error) ==
    IF error \/ LatestRows(msgs, c) = {} THEN {""}
    ELSE {PreviewOf(m) : m \in LatestRows(msgs, c)}

NoPreview == "<pending>"

\* getUser and the conversation list query.
RuList ==
    /\ rollup.pc \in {"idle", "done", "failed", "invalidated"}
    /\ \E error \in BOOLEAN :
          IF user = NoUser \/ error
          THEN rollup' = [IdleRollup EXCEPT !.pc = "failed"]
          ELSE \E l \in ListOrders(conversations, user) :
                 rollup' = [pc |-> IF l = <<>> THEN "done" ELSE "running",
                            list |-> l,
                            counted |-> {},
                            unread |-> [c \in ConvRowIds(conversations) |-> 0],
                            preview |-> [c \in ConvRowIds(conversations) |-> NoPreview],
                            erred |-> FALSE]
    /\ UNCHANGED <<messages, conversations, now, push, send, cacheVars, awayVars,
                   convVars, mr, clean, extVars>>

Listed(r) == {r.list[i].id : i \in 1..Len(r.list)}

\* The unread count query of one conversation: unread_count: unreadCount || 0,
\* the query's error is not looked at.
RuCount(c) ==
    /\ rollup.pc = "running"
    /\ c \in Listed(rollup)
    /\ c \notin rollup.counted
    /\ \E unreadError \in BOOLEAN :
          rollup' = [rollup EXCEPT
                       !.counted = @ \cup {c},
                       !.erred = @ \/ unreadError,
                       !.unread[c] = IF unreadError THEN 0 ELSE UnreadCount(messages, c)]
    /\ UNCHANGED <<messages, conversations, now, push, send, cacheVars, awayVars,
                   convVars, mr, clean, extVars>>

\* The latest message query of one conversation, after its count; the roll-up
\* is returned when the last conversation is through.
RuLatest(c) ==
    /\ rollup.pc = "running"
    /\ c \in Listed(rollup)
    /\ c \in rollup.counted
    /\ rollup.preview[c] = NoPreview
    /\ \E error \in BOOLEAN :
       \E p \in LatestPreviews(messages, c, error) :
          LET r == [rollup EXCEPT !.preview[c] = p, !.erred = @ \/ error] IN
          rollup' = IF \A d \in Listed(r) : r.preview[d] # NoPreview
                    THEN [r EXCEPT !.pc = "done"]
                    ELSE r
    /\ UNCHANGED <<messages, conversations, now, push, send, cacheVars, awayVars,
                   convVars, mr, clean, extVars>>

StatusRow(id, conv, stype, status, t) ==
    [MessageRow(id, conv, stype, IF stype = "business" THEN "b1" ELSE "ann@x", "hi", t)
        EXCEPT !.status = status]

InitRead ==
    /\ messages \in SUBSET {StatusRow(1, "c1", "customer", "delivered", 1),
                            StatusRow(2, "c1", "business", "sent", 1)}
    /\ conversations = {ConvRow("c1", "b1", "ann@x", 1)}
    /\ now = 1
    /\ pages = <<>> /\ fetch = IdleFetch /\ push = {}
    /\ send = [a \in Actors |-> IdleSend]
    /\ AwayAtRest
    /\ foc = [k \in Callers |-> IdleFoc] /\ usedConvs = {"c1", "c2"} /\ del = IdleDel
    /\ user \in {"b1", NoUser}
    /\ ReadAtRest
    /\ ExtAtRest

NextRead ==
    \/ MrStart(OpenConv)
    \/ MrUpdate
    \/ RuList
    \/ \E c \in ConvIds : RuCount(c)
    \/ \E c \in ConvIds : RuLatest(c)
    \/ SendInsert("customer", "c1")
    \/ SendInsertFails("customer", "c1")
    \/ SendBump("customer")
    \/ SendSuccess("customer", "dispatched")

SpecRead == InitRead /\ [][NextRead]_vars

\* The unread count query of conversation c is answered in this step.
CountAnswered(c) ==
    /\ rollup.pc = "running" /\ c \in Listed(rollup)
    /\ c \notin rollup.counted /\ c \in rollup'.counted

\* C8 (P5): the unread_count the roll-up computes for a conversation is the
\* number of its customer messages in status sent or delivered; computed
\* after a successful markMessagesAsRead with no customer message since, it
\* is 0 and every customer message of the conversation is read.
P5_UnreadCount ==
    [][\A c \in ConvIds :
          CountAnswered(c) =>
              /\ rollup'.unread[c] = UnreadCount(messages, c)
              /\ clean[c] =>
                    /\ rollup'.unread[c] = 0
                    /\ \A m \in ConvMessages(c) :
                          m.sender_type = "customer" => m.status = "read"]_vars

\* The mark-read update is answered in this step.
MrAnswered == mr.pc = "update" /\ mr'.pc \in {"done", "failed"}

\* C9 (Scenario C): markMessagesAsRead on a conversation already marked read,
\* with no customer message since, changes no message row and leaves the
\* unread count at 0.
ScenarioC_MarkReadIdempotent ==
    [][(MrAnswered /\ clean[mr.conv]) =>
          (messages' = messages /\ UnreadCount(messages', mr.conv) = 0)]_vars

\* The second markMessagesAsRead on a conversation that holds customer
\* messages has succeeded.
W_ScenarioC ==
    /\ mr.pc = "done" /\ mr.wasClean
    /\ \E m \in ConvMessages(mr.conv) : m.sender_type = "customer"
\* ----------------------------------------------------------- broadcastMessage
BcFrame == UNCHANGED <<pages, fetch, send, awayVars, convVars, readVars, rt, open, feed, dm, cache>>

\* broadcastMessage(businessId, content) is called from the dashboard.
BcStart ==
    /\ bc.pc \in {"idle", "done", "failed"}
    /\ bc' = [IdleBc EXCEPT !.pc = "business"]
    /\ UNCHANGED <<messages, conversations, now, push>> /\ BcFrame

\* The businesses row is read: if (businessError) throw businessError
BcReadBusiness ==
    /\ bc.pc = "business"
    /\ \E businessError \in BOOLEAN :
          bc' = [bc EXCEPT !.pc = IF businessError THEN "failed" ELSE "list"]
    /\ UNCHANGED <<messages, conversations, now, push>> /\ BcFrame

\* BcList, had the query listed the conversations of every business.
BcListAll ==
    /\ bc.pc = "list"
    /\ \E fetchError \in BOOLEAN :
          LET ids == {c.id : c \in conversations} IN
          bc' = IF fetchError THEN [bc EXCEPT !.pc = "failed"]
                ELSE IF ids = {} THEN [bc EXCEPT !.pc = "done"]
                ELSE [bc EXCEPT !.pc = "insert", !.convs = ids]
    /\ UNCHANGED <<messages, conversations, now, push>> /\ BcFrame

\* The ids of the business's conversations: if (fetchError) throw fetchError;
\* if there is none, return.
BcList ==
    /\ bc.pc = "list"
    /\ \E fetchError \in BOOLEAN :
          LET ids == {c.id : c \in {r \in conversations : r.business_id = "b1"}} IN
          bc' = IF fetchError THEN [bc EXCEPT !.pc = "failed"]
                ELSE IF ids = {} THEN [bc EXCEPT !.pc = "done"]
                ELSE [bc EXCEPT !.pc = "insert", !.convs = ids]
    /\ UNCHANGED <<messages, conversations, now, push>> /\ BcFrame

\* The assignments of fresh message ids to the conversations of a batch.
BatchIds(convs) ==
    {f \in [convs -> MsgIds \ UsedIds] : \A c, d \in convs : c # d => f[c] # f[d]}

\* The batch insert: one business message per conversation, in one statement.
BcInsert ==
    /\ bc.pc = "insert"
    /\ \A c \in bc.convs : MessageInsertOk(conversations, c)
    /\ \E f \in BatchIds(bc.convs), t \in Stamps :
          /\ messages' = messages \cup
                {MessageRow(f[c], c, "business", "b1", "news", t) : c \in bc.convs}
          /\ now' = t
          /\ push' = IF OpenConv \in bc.convs THEN push \cup {f[OpenConv]} ELSE push
    /\ bc' = [bc EXCEPT !.pc = "bump"]
    /\ UNCHANGED conversations /\ BcFrame

\* if (insertError) throw insertError
BcInsertFails ==
    /\ bc.pc = "insert"
    /\ bc' = [bc EXCEPT !.pc = "failed"]
    /\ UNCHANGED <<messages, conversations, now, push>> /\ BcFrame

\* update conversations set updated_at = now where id in (...): the result is
\* not looked at; the notifications are dispatched without being awaited and
\* the broadcast returns.
BcBump ==
    /\ bc.pc = "bump"
    /\ \E error \in BOOLEAN :
          conversations' =
             IF error THEN conversations
             ELSE {IF c.id \in bc.convs THEN [c EXCEPT !.updated_at = now] ELSE c :
                     c \in conversations}
    /\ bc' = [bc EXCEPT !.pc = "done"]
    /\ UNCHANGED <<messages, now, push>> /\ BcFrame

InitBump ==
    /\ messages = {}
    /\ conversations = {ConvRow("c1", "b1", "ann@x", 1), ConvRow("c2", "b1", "bob@x", 1)}
    /\ now = 1
    /\ pages = <<>> /\ fetch = IdleFetch /\ push = {}
    /\ send = [a \in Actors |-> IdleSend]
    /\ business \in [away_message_enabled : {TRUE}, away_message : {"Away"}]
    /\ away = [i \in Invocations |-> IdleAway]
    /\ ConvAtRest /\ ReadAtRest
    /\ ExtAtRest

NextBump ==
    \/ SendInsert("customer", "c1")
    \/ SendInsertFails("customer", "c1")
    \/ SendBump("customer")
    \/ \E o \in NotifyOutcomes : SendSuccess("customer", o)
    \/ AwayStart(1)
    \/ AwayReadBusiness(1)
    \/ AwayCheck(1)
    \/ AwayInsert(1)
    \/ AwayInsertFails(1)
    \/ AwayBump(1)
    \/ AwayNotify(1, "dispatched")
    \/ BcStart
    \/ BcReadBusiness
    \/ BcList
    \/ BcInsert
    \/ BcInsertFails
    \/ BcBump

SpecBump == InitBump /\ [][NextBump]_vars

\* C12: the updated_at update that follows a successful message insert -- in
\* useSendMessage, checkAndSendAwayMessage and broadcastMessage -- leaves the
\* conversation's updated_at at the current time, the time of the insert or
\* later, and so newer than the value it had before the insert.
UpdatedAtBumped ==
    [][/\ \A a \in Actors :
            (send[a].pc = "inserted" /\ send'[a].pc = "bumped")
               => UpdatedAt(conversations', send[a].conv) = now
       /\ \A i \in Invocations :
            (away[i].pc = "bump" /\ away'[i].pc = "notify")
               => UpdatedAt(conversations', away[i].conv) = now
       /\ (bc.pc = "bump" /\ bc'.pc = "done")
               => \A c \in bc.convs : UpdatedAt(conversations', c) = now]_vars
\* ------------------------------------------------------ useUpdateConversation
\* mutationFn({ conversationId, updates: { pinned } }): the row is updated
\* together with updated_at; if (error) throw error.
UpdateConversation(c, pinned) ==
    /\ ConversationExists(conversations, c)
    /\ \E error \in BOOLEAN :
          /\ conversations' =
                IF error THEN conversations
                ELSE {IF r.id = c THEN [r EXCEPT !.pinned = pinned, !.updated_at = now]
                      ELSE r : r \in conversations}
          /\ feed' = IF error THEN feed
                     ELSE EmitConversations(feed, {r \in conversations : r.id = c})
          /\ rollup' = IF error THEN rollup ELSE InvalidatedList(rollup)
    /\ UNCHANGED <<messages, now, push, send, cacheVars, awayVars, convVars,
                   mr, clean, restVars>>

\* Three conversations, the third one possibly of another business, each
\* pinned or not and last updated at any time.
InitList ==
    /\ messages = {}
    /\ \E b3 \in BusinessIds, p \in [ConvIds -> BOOLEAN], u \in [ConvIds -> Times] :
          conversations =
             {[ConvRow("c1", "b1", "ann@x", u["c1"]) EXCEPT !.pinned = p["c1"]],
              [ConvRow("c2", "b1", "bob@x", u["c2"]) EXCEPT !.pinned = p["c2"]],
              [ConvRow("c3", b3, "cid@x", u["c3"]) EXCEPT !.pinned = p["c3"]]}
    /\ now = MaxTime
    /\ pages = <<>> /\ fetch = IdleFetch /\ push = {}
    /\ send = [a \in Actors |-> IdleSend]
    /\ AwayAtRest
    /\ foc = [k \in Callers |-> IdleFoc] /\ usedConvs = ConvIds /\ del = IdleDel
    /\ user = "b1"
    /\ ReadAtRest
    /\ ExtAtRest

NextList ==
    \/ RuList
    \/ \E c \in ConvIds : RuCount(c)
    \/ \E c \in ConvIds : RuLatest(c)
    \/ \E c \in ConvIds, p \in BOOLEAN : UpdateConversation(c, p)

SpecList == InitList /\ [][NextList]_vars

\* The conversations of the business the list was asked for.
Owned == {r \in conversations : r.business_id = user}

ContentRow(id, conv, content, image, t) ==
    [MessageRow(id, conv, "customer", "ann@x", content, t) EXCEPT !.image_url = image]

\* What a message holds: text, an image, or both.
Payloads == {<<"hi", NoText>>, <<"", "img">>, <<NoText, "img">>, <<"yo", "img">>}

\* Conversation c1 holds up to two messages of any payload, c2 none.
InitPreview ==
    /\ \E f \in [1..2 -> {Null} \cup (Payloads \X Times)] :
          messages = {ContentRow(i, "c1", f[i][1][1], f[i][1][2], f[i][2]) :
                        i \in {j \in 1..2 : f[j] # Null}}
    /\ conversations = {ConvRow("c1", "b1", "ann@x", 1), ConvRow("c2", "b1", "bob@x", 1)}
    /\ now = MaxTime
    /\ pages = <<>> /\ fetch = IdleFetch /\ push = {}
    /\ send = [a \in Actors |-> IdleSend]
    /\ AwayAtRest
    /\ foc = [k \in Callers |-> IdleFoc] /\ usedConvs = {"c1", "c2"} /\ del = IdleDel
    /\ user = "b1"
    /\ ReadAtRest
    /\ ExtAtRest

NextPreview ==
    \/ RuList
    \/ \E c \in ConvIds : RuCount(c)
    \/ \E c \in ConvIds : RuLatest(c)
    \/ SendInsert("customer", "c1")
    \/ SendInsertFails("customer", "c1")
    \/ SendBump("customer")
    \/ SendSuccess("customer", "dispatched")

SpecPreview == InitPreview /\ [][NextPreview]_vars

\* The latest-message query of conversation c is answered in this step.
PreviewAnswered(c) ==
    /\ rollup.pc = "running" /\ c \in Listed(rollup)
    /\ rollup.preview[c] = NoPreview /\ rollup'.preview[c] # NoPreview

\* C14: the preview the roll-up computes for a conversation is the content
\* of a message with the greatest created_at when it has content, 'Image'
\* when that message has only an image_url, and '' when the conversation
\* has no message.
LatestMessagePreview ==
    [][\A c \in ConvIds :
          PreviewAnswered(c) =>
              IF ConvMessages(c) = {} THEN rollup'.preview[c] = ""
              ELSE \E m \in LatestRows(messages, c) :
                      \/ m.content \notin {NoText, ""} /\ rollup'.preview[c] = m.content
                      \/ /\ m.content \in {NoText, ""}
                         /\ m.image_url \notin {NoText, ""}
                         /\ rollup'.preview[c] = "Image"]_vars
\* ------------------------------ useRealtimeMessages / useRealtimeConversations
\* The scope a hook is rendered with: a conversation id or business id, or
\* null ("none").
Scopes == {"none", "s1", "s2"}

RtFrame == UNCHANGED <<messages, conversations, now, push, send, cacheVars,
                       awayVars, convVars, readVars, bc, open, feed, dm, cache>>

\* return () => { supabase.removeChannel(channel) }: the cleanup of the effect
\* that subscribed, if that effect returned one.
Cleanup(r) ==
    IF r.chan = 0 THEN r
    ELSE [r EXCEPT !.live = @ \ {r.chan}, !.removals[r.chan] = @ + 1, !.chan = 0]

\* A render that leaves the channel of the previous effect in place.
HookRenderNoCleanup(h, scope, newClient) ==
    /\ rt[h].mounted /\ rt[h].pc = "idle"
    /\ scope # rt[h].scope \/ newClient
    /\ rt' = [rt EXCEPT ![h] = [@ EXCEPT !.pc = "effect", !.scope = scope]]
    /\ RtFrame

\* The component mounts: the effect is due.
HookMount(h, scope) ==
    /\ ~rt[h].mounted
    /\ rt' = [rt EXCEPT ![h] = [@ EXCEPT !.mounted = TRUE, !.pc = "effect", !.scope = scope]]
    /\ RtFrame

\* A render with a dependency changed (the scope, or the client object that
\* createClient() returned): the previous effect's cleanup runs, then the
\* effect is due again.
HookRender(h, scope, newClient) ==
    /\ rt[h].mounted /\ rt[h].pc = "idle"
    /\ scope # rt[h].scope \/ newClient
    /\ rt' = [rt EXCEPT ![h] = [Cleanup(@) EXCEPT !.pc = "effect", !.scope = scope]]
    /\ RtFrame

\* The effect: if (!scope) return; otherwise a channel is created and
\* subscribed.
HookEffect(h) ==
    /\ rt[h].pc = "effect"
    /\ rt[h].scope # "none" => rt[h].made < MaxChannels
    /\ rt' = [rt EXCEPT ![h] =
                IF @.scope = "none" THEN [@ EXCEPT !.pc = "idle"]
                ELSE [@ EXCEPT !.pc = "idle", !.made = @ + 1, !.chan = rt[h].made + 1,
                               !.live = @ \cup {rt[h].made + 1}]]
    /\ RtFrame

\* The component unmounts: the cleanup runs.
HookUnmount(h) ==
    /\ rt[h].mounted /\ rt[h].pc = "idle"
    /\ rt' = [rt EXCEPT ![h] = [Cleanup(@) EXCEPT !.mounted = FALSE]]
    /\ RtFrame

InitRt ==
    /\ messages = {}
    /\ conversations = {ConvRow("c1", "b1", "ann@x", 1)}
    /\ now = 1
    /\ pages = <<>> /\ fetch = IdleFetch /\ push = {}
    /\ send = [a \in Actors |-> IdleSend]
    /\ AwayAtRest /\ ConvAtRest /\ ReadAtRest
    /\ ExtAtRest

NextRt ==
    \/ \E h \in Hooks, s \in Scopes : HookMount(h, s)
    \/ \E h \in Hooks, s \in Scopes, n \in BOOLEAN : HookRender(h, s, n)
    \/ \E h \in Hooks : HookEffect(h)
    \/ \E h \in Hooks : HookUnmount(h)

SpecRt == InitRt /\ [][NextRt]_vars

\* C16: a hook never holds two live channels; a channel it created is
\* removed exactly once, when the scope (or another dependency) changes or
\* the component unmounts, and before the channel of the next effect is
\* subscribed; a live channel has not been removed.
SubscriptionRelease ==
    \A h \in Hooks :
        LET r == rt[h] IN
        /\ Cardinality(r.live) <= 1
        /\ r.live = IF r.chan = 0 THEN {} ELSE {r.chan}
        /\ \A id \in 1..MaxChannels :
              r.removals[id] = IF id <= r.made /\ id \notin r.live THEN 1 ELSE 0
        /\ ~r.mounted => r.live = {}
        /\ r.pc = "effect" => r.live = {}

\* A hook went from one scope to another and was then unmounted: both its
\* channels were removed once.
W_SubscriptionRelease ==
    \E h \in Hooks :
        /\ ~rt[h].mounted /\ rt[h].made = 2
        /\ rt[h].removals[1] = 1 /\ rt[h].removals[2] = 1
\* The send of actor a leaves the notification stage in this step.
SendLeavesNotify(a) == send[a].pc = "bumped" /\ send'[a].pc # "bumped"

\* C17: once the insert succeeded, the send returns the inserted message
\* whatever the notification stage met: a lookup that found nothing, a
\* lookup that threw, a dispatch that failed.
NotifyNeverFailsSend ==
    [][\A a \in Actors :
          SendLeavesNotify(a) =>
              /\ send'[a].pc = "idle"
              /\ send'[a].id = send[a].id
              /\ \E m \in messages' : m.id = send[a].id
      ]_vars

\* A send has returned its message although the notification lookup threw.
W_NotifyNeverFailsSend ==
    /\ send["customer"].pc = "idle"
    /\ send["customer"].note = "lookupThrows"
    /\ \E m \in messages : m.id = send["customer"].id
\* useDeleteConversation is called on conversation c in this step.
DelCalled(c) ==
    /\ del.pc \in {"idle", "done", "failed"}
    /\ del'.pc \in {"verified", "failed"} /\ del'.conv = c
    /\ del' # del

\* The caller may not delete c: nobody is signed in, c does not exist, or c
\* belongs to another business.
MayNotDelete(c) ==
    \/ user = NoUser
    \/ \A r \in conversations : r.id # c
    \/ \E r \in conversations : r.id = c /\ r.business_id # user

\* C18: a delete by a caller who may not delete the conversation fails at
\* once, and a failed delete removes no message and no conversation row.
DeleteAuthorization ==
    [][/\ \A c \in ConvIds :
            (DelCalled(c) /\ MayNotDelete(c)) => del'.pc = "failed"
       /\ (del.pc = "failed" \/ del'.pc = "failed")
            => /\ messages \subseteq messages'
               /\ ConvRowIds(conversations') = ConvRowIds(conversations)
      ]_vars

\* Business b2 tried to delete conversation c1 of business b1, which holds
\* a message: the delete failed and everything is still there.
W_DeleteAuthorization ==
    /\ user = "b2" /\ del.pc = "failed" /\ del.conv = "c1"
    /\ ConvMessages("c1") # {}
    /\ ConversationExists(conversations, "c1")
\* Conversation c1 of business b1 with three messages, two of them at the
\* same instant; its chat page is about to load and the conversation list
\* is being computed.
InitFetch ==
    /\ messages = {StatusRow(1, "c1", "customer", "sent", 1),
                   StatusRow(2, "c1", "business", "sent", 1),
                   StatusRow(3, "c1", "customer", "sent", 2)}
    /\ conversations = {ConvRow("c1", "b1", "ann@x", 2)}
    /\ now = MaxTime
    /\ pages = <<>> /\ fetch = Invalidated(<<>>) /\ push = {}
    /\ send = [a \in Actors |-> IdleSend]
    /\ AwayAtRest /\ ConvAtRest /\ ReadAtRest
    /\ ExtAtRest

NextFetch ==
    \/ RefetchStep
    \/ FetchNextPage
    \/ NextPageStep
    \/ MrStart(OpenConv)
    \/ MrUpdate
    \/ RuList
    \/ \E c \in ConvIds : RuCount(c)
    \/ \E c \in ConvIds : RuLatest(c)

SpecFetch == InitFetch /\ [][NextFetch]_vars

\* C19: a roll-up one of whose queries failed does not complete with a
\* result, and a page fetch that failed leaves the query in its error state
\* with the loaded pages as they were.
ReadErrorsPropagate ==
    [][/\ rollup'.pc = "done" => ~rollup'.erred
       /\ fetch'.kind = "error" => pages' = pages
      ]_vars

\* ------------------------------------------------- the shape of a fetched page
\* Any store, and any conversationId the hook can be given: an id or null.
InitShape ==
    /\ \E f \in [MsgIds -> {Null} \cup (ConvIds \X Times)] :
          messages = {Row(i, f[i][1], f[i][2]) : i \in {j \in MsgIds : f[j] # Null}}
    /\ conversations = {ConvRow("c1", "b1", "ann@x", 1), ConvRow("c2", "b1", "bob@x", 1)}
    /\ now = MaxTime
    /\ pages = <<>>
    /\ fetch = IdleFetch
    /\ push = {}
    /\ send = [a \in Actors |-> IdleSend]
    /\ AwayAtRest /\ ConvAtRest /\ ReadAtRest
    /\ bc = IdleBc /\ rt = [h \in Hooks |-> IdleHook] /\ feed = NoEvents /\ dm = IdleDm /\ cache = NoCache
    /\ open \in {"c1", "c2", NoConversation}

NextShape == FetchPage

SpecShape == InitShape /\ [][NextShape]_vars

\* The rows the query of the page just fetched matched.
MatchedBy(ps) ==
    IF open = NoConversation THEN {}
    ELSE Matching(messages, open, GetNextPageParam(ps))

Rows(s) == {s[i] : i \in 1..Len(s)}

\* C21: a fetched page holds at most MESSAGES_PER_PAGE messages, oldest
\* first; hasMore is true exactly when the query matched one row more than
\* a page, and then the rows left out are no newer than any row returned;
\* nextCursor is the (created_at, id) of the first (oldest) row of the page
\* when hasMore and null otherwise; with no row matched, or with a null
\* conversation id, the page is {data: [], nextCursor: null, hasMore: false}.
PageShape ==
    [][Len(pages') = Len(pages) + 1 =>
         LET p == pages'[Len(pages')]
             M == MatchedBy(pages)
         IN /\ Len(p.data) <= MESSAGES_PER_PAGE
            /\ \A i \in 1..Len(p.data) :
                  i < Len(p.data) => p.data[i].created_at <= p.data[i + 1].created_at
            /\ Cardinality(Rows(p.data)) = Len(p.data)
            /\ Rows(p.data) \subseteq M
            /\ p.hasMore <=> Cardinality(M) >= MESSAGES_PER_PAGE + 1
            /\ p.hasMore =>
                  /\ Len(p.data) = MESSAGES_PER_PAGE
                  /\ \A m \in M \ Rows(p.data) : \A r \in Rows(p.data) :
                        m.created_at <= r.created_at
            /\ ~p.hasMore => Rows(p.data) = M
            /\ p.nextCursor =
                  IF p.hasMore
                  THEN [created_at |-> p.data[1].created_at, id |-> p.data[1].id]
                  ELSE Null
            /\ M = {} => p = [data |-> <<>>, nextCursor |-> Null, hasMore |-> FALSE]
      ]_vars

\* A page that dropped the query's extra row, followed by the page of the
\* rows before its cursor.
W_PageShape ==
    /\ Len(pages) = 2
    /\ pages[1].hasMore /\ Len(pages[1].data) = MESSAGES_PER_PAGE
    /\ pages[2].data # <<>>

\* -------------------------------------------------- useRealtimeConversations
\* The callback of the messages listener, had it left the list query alone.
ListPushMessageIgnored ==
    /\ Subscribed
    /\ \E id \in feed.messages : feed' = [feed EXCEPT !.messages = @ \ {id}]
    /\ UNCHANGED <<messages, conversations, now, push, send, cacheVars, awayVars,
                   convVars, readVars, restVars>>

\* The callback of the messages listener: invalidateQueries(['conversations']).
ListPushMessage ==
    /\ Subscribed
    /\ \E id \in feed.messages : feed' = [feed EXCEPT !.messages = @ \ {id}]
    /\ rollup' = InvalidatedList(rollup)
    /\ UNCHANGED <<messages, conversations, now, push, send, cacheVars, awayVars,
                   convVars, mr, clean, restVars>>

\* The callback of the conversations listener: invalidateQueries(['conversations']).
ListPushConversation ==
    /\ Subscribed
    /\ \E c \in feed.conversations : feed' = [feed EXCEPT !.conversations = @ \ {c}]
    /\ rollup' = InvalidatedList(rollup)
    /\ UNCHANGED <<messages, conversations, now, push, send, cacheVars, awayVars,
                   convVars, mr, clean, restVars>>

\* The dashboard of b1 is mounted: its channel is subscribed and its list
\* query is about to be fetched for the first time.  c2 belongs to b2.
InitTrigger ==
    /\ messages = {}
    /\ conversations = {ConvRow("c1", "b1", "ann@x", 1), ConvRow("c2", "b2", "bob@x", 1)}
    /\ now = 1
    /\ pages = <<>> /\ fetch = IdleFetch /\ push = {}
    /\ send = [a \in Actors |-> IdleSend]
    /\ AwayAtRest /\ ConvAtRest /\ ReadAtRest
    /\ bc = IdleBc /\ open = "c1" /\ feed = NoEvents /\ dm = IdleDm /\ cache = NoCache
    /\ rt = [h \in Hooks |->
               IF h = ListHook
               THEN [IdleHook EXCEPT !.mounted = TRUE, !.scope = "b1", !.chan = 1,
                                     !.live = {1}, !.made = 1]
               ELSE IdleHook]

\* The list query is fetched when it is new, invalid or failed.
NextTrigger ==
    \/ \E c \in {"c1", "c2"} : SendInsert("customer", c)
    \/ SendBump("customer")
    \/ SendSuccess("customer", "dispatched")
    \/ ListPushMessage
    \/ ListPushConversation
    \/ (rollup.pc # "done" /\ RuList)
    \/ \E c \in ConvIds : RuCount(c)
    \/ \E c \in ConvIds : RuLatest(c)

SpecTrigger == InitTrigger /\ [][NextTrigger]_vars

\* The channel delivers its events, and react-query runs the fetch of a list
\* query that is new or invalid and of every query it has started.
FairTrigger ==
    /\ SpecTrigger
    /\ WF_vars(ListPushMessage)
    /\ WF_vars(ListPushConversation)
    /\ WF_vars(rollup.pc # "done" /\ RuList)
    /\ WF_vars(\E c \in ConvIds : RuCount(c))
    /\ WF_vars(\E c \in ConvIds : RuLatest(c))

\* An event leaves the feed in this step: its callback has run.
Delivered ==
    \/ \E id \in feed.messages : id \notin feed'.messages
    \/ \E c \in feed.conversations : c \notin feed'.conversations

ListSettled == rollup.pc \in {"done", "failed"}

\* C22: the callback of every event -- on a conversation row of the
\* subscribed business or on a message -- leaves the conversation list query
\* invalidated (or not yet fetched), and once the events are delivered the
\* list query is eventually fetched from the store again to its end.
RollupRecomputation ==
    /\ [][Delivered => (rollup.pc = "idle" \/ rollup'.pc = "invalidated")]_vars
    /\ (feed # NoEvents) ~> (feed = NoEvents /\ ListSettled)

\* A message of c1 was inserted, its events were delivered, and the list
\* fetched after them counts it.
W_RollupRecomputation ==
    /\ feed = NoEvents
    /\ rollup.pc = "done" /\ ~rollup.erred
    /\ "c1" \in Listed(rollup)
    /\ rollup.unread["c1"] >= 1
    /\ UpdatedAt(conversations, "c1") > 1

\* ----------------------------------------------------------- useDeleteMessage
\* mutationFn, the read of the message's conversation_id; its error is not
\* looked at, so a failed read gives no conversation id.
DmStart(id, by) ==
    /\ dm.pc \in {"idle", "done", "failed"}
    /\ \E readError \in BOOLEAN :
          dm' = [pc |-> "delete", id |-> id, by |-> by,
                 conv |-> IF readError \/ id \notin UsedIds THEN "none"
                          ELSE (CHOOSE m \in messages : m.id = id).conversation_id]
    /\ UNCHANGED <<messages, conversations, now, push, send, cacheVars, awayVars,
                   convVars, readVars, bc, rt, open, feed, cache>>

\* The delete: if (error) throw error; on success the row is gone, its DELETE
\* event is raised, and onSuccess invalidates the messages query of the
\* conversation id that was read.
DmDelete ==
    /\ dm.pc = "delete"
    /\ \E error \in BOOLEAN :
          IF error
          THEN /\ dm' = [dm EXCEPT !.pc = "failed"]
               /\ UNCHANGED <<messages, push, feed, fetch>>
          ELSE LET gone == {m \in messages : m.id = dm.id} IN
               /\ messages' = messages \ gone
               /\ push' = push \cup {m.id : m \in {x \in gone : x.conversation_id = OpenConv}}
               /\ feed' = EmitMessages(feed, {m.id : m \in gone})
               /\ fetch' = IF dm.by = Viewer /\ dm.conv = OpenConv
                           THEN Invalidated(pages) ELSE fetch
               /\ dm' = [dm EXCEPT !.pc = "done"]
    /\ UNCHANGED <<conversations, now, send, pages, awayVars, convVars, readVars,
                   bc, rt, open, cache>>

\* The ids of a conversation of two full pages.
TwoPages == 1..(2 * MESSAGES_PER_PAGE)

\* The open conversation holds two pages of messages, with created_at values
\* that may coincide; its chat page is about to load.
InitDelMsg ==
    /\ \E f \in [TwoPages -> Times] :
          messages = {Row(i, "c1", f[i]) : i \in TwoPages}
    /\ conversations = {ConvRow("c1", "b1", "ann@x", 1)}
    /\ now = MaxTime
    /\ pages = <<>> /\ fetch = Invalidated(<<>>) /\ push = {}
    /\ send = [a \in Actors |-> IdleSend]
    /\ AwayAtRest /\ ConvAtRest /\ ReadAtRest
    /\ ExtAtRest

\* One message is deleted, by either party.
NextDelMsg ==
    \/ RefetchStep
    \/ FetchNextPage
    \/ NextPageStep
    \/ PushDeliver
    \/ \E id \in TwoPages, by \in Actors : (dm.pc = "idle" /\ DmStart(id, by))
    \/ DmDelete

SpecDelMsg == InitDelMsg /\ [][NextDelMsg]_vars

\* The refetch that an invalidation started delivers its pages in this step.
RefetchCompletes == fetch.kind = "refetch" /\ fetch'.kind = "idle"

\* C23: when a refetch completes, a message that was deleted and whose DELETE
\* event has been handled is not in the visible sequence, neither as a row
\* nor as a placeholder, and every message that was loaded before and is
\* still stored is in it.
DeleteRemovesFromView ==
    [][RefetchCompletes =>
          /\ \A id \in TwoPages :
                (id \notin UsedIds /\ id \notin push) => id \notin Ids(Flatten(pages'))
          /\ (Ids(allMessages) \cap UsedIds) \subseteq Ids(Flatten(pages'))]_vars

\* The first half of C23 alone: the deleted message is gone from the view.
DeletedAbsent ==
    [][RefetchCompletes =>
          \A id \in TwoPages :
             (id \notin UsedIds /\ id \notin push) => id \notin Ids(Flatten(pages'))]_vars

\* ------------------------------------------- switching the open conversation
\* One page of the fetch of a query arrives (or its error): what the entry
\* e of the key ['messages', conv] becomes.  The result of queryFn is
\* stored under the key the fetch was started for.
FetchOutcomes(e, msgs, conv) ==
    IF e.fetch.kind = "refetch"
    THEN {[pages |-> e.pages, fetch |-> ErrorFetch]} \cup
         {LET acc == Append(e.fetch.acc, p) IN
          IF Len(acc) = e.fetch.want \/ p.nextCursor = Null
          THEN [pages |-> acc, fetch |-> IdleFetch]
          ELSE [pages |-> e.pages, fetch |-> [e.fetch EXCEPT !.acc = acc]] :
             p \in PageResults(msgs, conv, GetNextPageParam(e.fetch.acc))}
    ELSE {[pages |-> e.pages, fetch |-> ErrorFetch]} \cup
         {[pages |-> Append(e.pages, p), fetch |-> IdleFetch] :
             p \in PageResults(msgs, conv, GetNextPageParam(e.pages))}

SwitchFrame == UNCHANGED <<messages, conversations, now, send, awayVars, convVars,
                           readVars, bc, rt, feed, dm>>

\* BackgroundStep, had the arriving result been put into the query of the
\* conversation that is open now.
BackgroundStepIntoOpen(k) ==
    /\ k # open
    /\ cache[k].fetch.kind \in {"refetch", "next"}
    /\ \E e \in FetchOutcomes(cache[k], messages, k) :
          /\ pages' = e.pages
          /\ fetch' = e.fetch
          /\ cache' = [cache EXCEPT ![k].fetch = IdleFetch]
    /\ UNCHANGED <<push, open>> /\ SwitchFrame

\* A page of a fetch that was started for conversation k arrives after the
\* chat page has moved to another conversation.
BackgroundStep(k) ==
    /\ k # open
    /\ cache[k].fetch.kind \in {"refetch", "next"}
    /\ \E e \in FetchOutcomes(cache[k], messages, k) : cache' = [cache EXCEPT ![k] = e]
    /\ UNCHANGED <<pages, fetch, push, open>> /\ SwitchFrame

\* The chat page is given another conversationId: useMessages observes the
\* query of the new key, whose fetch in flight goes on, and which is fetched
\* when it has no data, is in error or is stale; the fetch in flight of the
\* old key goes on in the cache.  useRealtimeMessages removes the channel of
\* the old conversation before it subscribes for the new one, so the events
\* that channel had not delivered are not delivered.
Switch(c) ==
    /\ c # open
    /\ open' = c
    /\ cache' = [cache EXCEPT ![open] = [pages |-> pages, fetch |-> fetch], ![c] = NoEntry]
    /\ pages' = cache[c].pages
    /\ \E stale \in BOOLEAN :
          fetch' = IF cache[c].fetch.kind \in {"refetch", "next"} THEN cache[c].fetch
                   ELSE IF cache[c].pages = <<>> \/ cache[c].fetch.kind = "error" \/ stale
                        THEN Invalidated(cache[c].pages)
                        ELSE IdleFetch
    /\ push' = {}
    /\ SwitchFrame

InitSwitch ==
    /\ messages = {Row(1, "c1", 1), Row(2, "c2", 1)}
    /\ conversations = {ConvRow("c1", "b1", "ann@x", 1), ConvRow("c2", "b1", "bob@x", 1)}
    /\ now = 1
    /\ pages = <<>> /\ fetch = Invalidated(<<>>) /\ push = {}
    /\ send = [a \in Actors |-> IdleSend]
    /\ AwayAtRest /\ ConvAtRest /\ ReadAtRest
    /\ ExtAtRest

NextSwitch ==
    \/ RefetchStep
    \/ PushDeliver
    \/ \E k \in {"c1", "c2"} : BackgroundStep(k)
    \/ \E c \in {"c1", "c2"} : Switch(c)
    \/ \E c \in {"c1", "c2"} : SendInsert("customer", c)
    \/ SendBump("customer")
    \/ SendSuccess("customer", "dispatched")

SpecSwitch == InitSwitch /\ [][NextSwitch]_vars

\* C24: the visible sequence of the open conversation holds only messages
\* of that conversation, whatever fetch of another conversation is still in
\* flight or arrives; and an event of a message of another conversation is
\* never pending for the open page, so it never invalidates or changes its
\* visible sequence.
ScopeIsolation ==
    /\ \A i \in 1..Len(allMessages) : allMessages[i].conversation_id = open
    /\ \A i \in 1..Len(fetch.acc) :
          \A j \in 1..Len(fetch.acc[i].data) : fetch.acc[i].data[j].conversation_id = open
    /\ \A id \in push : \A m \in messages : m.id = id => m.conversation_id = open

\* The chat page has moved from c1 to c2 and shows the messages of c2; the
\* query of c1 rests in the cache with the pages its fetch delivered, and c1
\* has received a message that those pages do not hold.
W_ScopeIsolation ==
    /\ open = "c2" /\ pages # <<>> /\ allMessages # <<>>
    /\ cache["c1"].pages # <<>> /\ cache["c1"].pages[1].data # <<>>
    /\ cache["c1"].fetch.kind = "idle"
    /\ \E m \in messages : m.conversation_id = "c1" /\ m.id \notin Ids(Flatten(cache["c1"].pages))

\* ------------------------------------------------------- broadcast fan-out
\* Each of c1, c2, c3 is absent or belongs to b1 or to b2; b1 broadcasts.
InitFanout ==
    /\ messages = {}
    /\ \E o \in [ConvIds -> BusinessIds \cup {NoUser}] :
          conversations = {ConvRow(c, o[c], "ann@x", 1) : c \in {d \in ConvIds : o[d] # NoUser}}
    /\ now = 1
    /\ pages = <<>> /\ fetch = IdleFetch /\ push = {}
    /\ send = [a \in Actors |-> IdleSend]
    /\ AwayAtRest /\ ConvAtRest /\ ReadAtRest
    /\ ExtAtRest

NextFanout ==
    \/ BcStart
    \/ BcReadBusiness
    \/ BcList
    \/ BcInsert
    \/ BcInsertFails
    \/ BcBump
    \/ SendInsert("customer", "c1")
    \/ SendBump("customer")
    \/ SendSuccess("customer", "dispatched")

SpecFanout == InitFanout /\ [][NextFanout]_vars

\* The conversations of the broadcasting business.
OwnConvs == {r.id : r \in {x \in conversations : x.business_id = "b1"}}

\* C25: the batch insert of a broadcast adds exactly one message to each
\* conversation of the business, each with sender_type business, sender_id
\* the business id, status sent and the broadcast content, and none to any
\* other conversation; with no conversation of the business the broadcast
\* returns without an insert; a failed batch insert adds no message, changes
\* no conversation row and ends the broadcast before its updated_at update.
BroadcastFanout ==
    [][/\ (bc.pc = "insert" /\ bc'.pc = "bump") =>
             /\ \A c \in OwnConvs :
                   Cardinality({m \in messages' \ messages : m.conversation_id = c}) = 1
             /\ \A m \in messages' \ messages :
                   /\ m.conversation_id \in OwnConvs
                   /\ m.sender_type = "business" /\ m.sender_id = "b1"
                   /\ m.status = "sent" /\ m.content = "news"
       /\ (bc.pc = "list" /\ bc' # bc /\ OwnConvs = {}) =>
             /\ bc'.pc \in {"done", "failed"}
             /\ messages' = messages /\ conversations' = conversations
       /\ (bc.pc = "insert" /\ bc'.pc = "failed") =>
             messages' = messages /\ conversations' = conversations
       /\ (bc.pc \in {"failed", "done"} /\ bc' # bc) =>
             /\ bc'.pc = "business"
             /\ messages' = messages /\ conversations' = conversations]_vars

\* A broadcast has inserted into the two conversations of b1 while a
\* conversation of b2 exists.
W_BroadcastFanout ==
    /\ bc.pc \in {"bump", "done"}
    /\ Cardinality(OwnConvs) = 2
    /\ \E r \in conversations : r.business_id = "b2"
    /\ Cardinality({m \in messages : m.sender_type = "business"}) = 2

\* ------------------------------------------- away insert after a failed check
\* At the insert, failed is set only by the existence check: a failed read
\* of the business ends the invocation before the check.
CheckFailed(i) == away[i].pc = "insert" /\ away[i].failed

\* C26: an invocation inserts its away message only when its existence check
\* completed without error; when the check returned an error, nothing is
\* inserted.
AwayInsertNeedsCleanCheck ==
    [][\A i \in Invocations :
          (away[i].pc = "insert" /\ away'[i].pc = "bump") => ~CheckFailed(i)]_vars

\* The part of C26 on a check that completed: an invocation whose check
\* completed without error and found the away message inserts nothing.
AwayFoundMeansNoInsert ==
    [][\A i \in Invocations :
          (/\ away[i].pc = "check" /\ away'[i].pc # "check" /\ ~away'[i].failed
           /\ AwayAlreadySent(messages, away[i].conv, "b1", away[i].text, FALSE))
             => away'[i].pc = "done" /\ messages' = messages]_vars

CustomerRows(msgs, c) ==
    {m \in msgs : m.conversation_id = c /\ m.sender_type = "customer"}

\* The batch update succeeds in this step.
MrSucceeds == mr.pc = "update" /\ mr'.pc = "done"

\* The part of C28 on the store: the batch update leaves every customer
\* message committed before it read, a message is created with status sent,
\* and no other step changes the status of a stored message.
MarkReadAtomic ==
    [][/\ MrSucceeds =>
             \A m \in CustomerRows(messages, mr.conv) :
                 [m EXCEPT !.status = "read"] \in messages'
       /\ \A m \in messages' : m.id \notin UsedIds => m.status = "sent"
       /\ ~MrSucceeds =>
             \A m \in messages : \A n \in messages' : n.id = m.id => n.status = m.status
      ]_vars

\* C28: with a mark-read and customer sends into the same conversation
\* interleaved, the batch update leaves every customer message committed
\* before it read, every customer message committed after it stays sent, and
\* the unread_count recomputed after the update is the number of customer
\* messages of the conversation that are not read.
MarkReadVersusSend ==
    [][/\ MrSucceeds =>
             \A m \in CustomerRows(messages, mr.conv) :
                 [m EXCEPT !.status = "read"] \in messages'
       /\ \A m \in messages' : m.id \notin UsedIds => m.status = "sent"
       /\ ~MrSucceeds =>
             \A m \in messages : \A n \in messages' : n.id = m.id => n.status = m.status
       /\ \A c \in ConvIds :
             (CountAnswered(c) /\ mr.pc = "done" /\ mr.conv = c) =>
                 rollup'.unread[c] =
                    Cardinality({m \in CustomerRows(messages, c) : m.status # "read"})
      ]_vars

\* ---------------------------------------------------------- mark-read frame
\* Two conversations of b1 with customer and business messages in sent or
\* delivered; the user is signed in or not.
InitFrame ==
    /\ messages \in SUBSET {StatusRow(1, "c1", "customer", "delivered", 1),
                            StatusRow(2, "c1", "business", "sent", 1),
                            StatusRow(3, "c2", "customer", "sent", 1)}
    /\ conversations = {ConvRow("c1", "b1", "ann@x", 1), ConvRow("c2", "b1", "bob@x", 1)}
    /\ now = 1
    /\ pages = <<>> /\ fetch = IdleFetch /\ push = {}
    /\ send = [a \in Actors |-> IdleSend]
    /\ AwayAtRest
    /\ foc = [k \in Callers |-> IdleFoc] /\ usedConvs = {"c1", "c2"} /\ del = IdleDel
    /\ user \in {"b1", NoUser}
    /\ ReadAtRest
    /\ ExtAtRest

NextFrame ==
    \/ \E c \in {"c1", "c2"} : MrStart(c)
    \/ MrUpdate
    \/ \E c \in {"c1", "c2"} : SendInsert("customer", c)
    \/ SendBump("customer")
    \/ SendSuccess("customer", "dispatched")

SpecFrame == InitFrame /\ [][NextFrame]_vars

\* C29: the mark-read update changes only the status, to read, of the
\* customer-sent messages of its conversation that were sent or delivered;
\* every other message, every other field and every conversation row is
\* left as it was; without an authenticated user the mutation fails and
\* changes nothing.
MarkReadFrame ==
    [][/\ (mr.pc = "update" /\ mr'.pc \in {"done", "failed"}) =>
             /\ conversations' = conversations
             /\ {m.id : m \in messages'} = UsedIds
             /\ \A m \in messages :
                   IF /\ mr'.pc = "done" /\ m.conversation_id = mr.conv
                      /\ m.sender_type = "customer" /\ m.status \in {"sent", "delivered"}
                   THEN [m EXCEPT !.status = "read"] \in messages'
                   ELSE m \in messages'
       /\ (user = NoUser /\ mr' # mr) =>
             /\ mr'.pc = "failed"
             /\ messages' = messages /\ conversations' = conversations
       /\ (mr.pc = "failed" /\ mr' # mr) =>
             /\ mr'.pc \in {"update", "failed"}
             /\ messages' = messages /\ conversations' = conversations
      ]_vars

\* A mark-read of one conversation succeeded: its customer message is read,
\* its business message and the other conversation's customer message are
\* as they were.
W_MarkReadFrame ==
    /\ mr.pc = "done"
    /\ \E m \in CustomerRows(messages, mr.conv) : m.status = "read"
    /\ \E m \in messages : /\ m.conversation_id = mr.conv
                            /\ m.sender_type = "business" /\ m.status = "sent"
    /\ \E m \in messages : /\ m.conversation_id # mr.conv
                            /\ m.sender_type = "customer" /\ m.status = "sent"

\* ------------------------------------------------------------ useUpdateMessage
\* What is typed into the edit box.
EditTexts == {"", " ", " edited ", "edited"}

\* String.prototype.trim on the texts above.
Trim(text) ==
    CASE text = " " -> ""
      [] text = " edited " -> "edited"
      [] OTHER -> text

\* The updates of an edit, had they reset the status with the content.
SaveEditUpdatesWithStatus(text) == [content |-> Trim(text), status |-> "sent"]

\* handleSaveEdit: updates: { content: editContent.trim() }
SaveEditUpdates(text) == [content |-> Trim(text)]

\* .update(updates).eq('id', messageId): the fields named in updates are
\* written, the others are kept.
UpdateMessage(msgs, messageId, updates) ==
    {IF m.id = messageId
     THEN [f \in DOMAIN m |-> IF f \in DOMAIN updates THEN updates[f] ELSE m[f]]
     ELSE m : m \in msgs}

\* handleSaveEdit: if (!editContent.trim()) return; otherwise the mutation
\* updates the row, throws on an error (.single() finds no row when the
\* message is gone), and onSuccess invalidates the messages query of the
\* row's conversation.
SaveEdit(id, by, text) ==
    /\ Trim(text) # ""
    /\ \E error \in BOOLEAN :
          IF error \/ id \notin UsedIds
          THEN UNCHANGED <<messages, push, feed, fetch>>
          ELSE LET row == CHOOSE m \in messages : m.id = id IN
               /\ messages' = UpdateMessage(messages, id, SaveEditUpdates(text))
               /\ push' = IF row.conversation_id = OpenConv THEN push \cup {id} ELSE push
               /\ feed' = EmitMessages(feed, {id})
               /\ fetch' = IF by = Viewer /\ row.conversation_id = OpenConv
                           THEN Invalidated(pages) ELSE fetch
    /\ UNCHANGED <<conversations, now, send, pages, awayVars, convVars, readVars,
                   restVars>>

\* ------------------------------------------------------- status of a message
\* One conversation of b1, empty; the away message is configured.
InitStatus ==
    /\ messages = {}
    /\ conversations = {ConvRow("c1", "b1", "ann@x", 1)}
    /\ now = MaxTime
    /\ pages = <<>> /\ fetch = IdleFetch /\ push = {}
    /\ send = [a \in Actors |-> IdleSend]
    /\ business = [away_message_enabled |-> TRUE, away_message |-> "Away"]
    /\ away = [i \in Invocations |-> IdleAway]
    /\ ConvAtRest /\ ReadAtRest
    /\ ExtAtRest

\* No operation of several statements is under way.
NoneUnderWay ==
    /\ send["customer"].pc \in {"idle", "failed"}
    /\ bc.pc \in {"idle", "done", "failed"}
    /\ away[1].pc \in {"idle", "done"}
    /\ dm.pc \in {"idle", "done", "failed"}
    /\ mr.pc \in {"idle", "done", "failed"}

\* The message the business edits and deletes; any operation can have
\* created it.
Edited == 1

\* send, edit-content, delete, mark-read, broadcast and the away trigger: the
\* operations of several statements are issued one after the other, the
\* edit at any moment.
NextStatus ==
    \/ NoneUnderWay /\ SendInsert("customer", "c1")
    \/ SendBump("customer")
    \/ SendSuccess("customer", "dispatched")
    \/ \E text \in EditTexts : SaveEdit(Edited, Viewer, text)
    \/ NoneUnderWay /\ DmStart(Edited, Viewer)
    \/ DmDelete
    \/ NoneUnderWay /\ MrStart("c1")
    \/ MrUpdate
    \/ NoneUnderWay /\ BcStart
    \/ BcReadBusiness
    \/ BcList
    \/ BcInsert
    \/ BcInsertFails
    \/ BcBump
    \/ NoneUnderWay /\ AwayStart(1)
    \/ AwayReadBusiness(1)
    \/ AwayCheck(1)
    \/ AwayInsert(1)
    \/ AwayInsertFails(1)
    \/ AwayBump(1)
    \/ AwayNotify(1, "dispatched")

SpecStatus == InitStatus /\ [][NextStatus]_vars

\* C30: every message is created with status sent, and a message whose
\* status is read keeps status read as long as it is stored.
StatusNeverRegresses ==
    [][/\ \A m \in messages' : m.id \notin UsedIds => m.status = "sent"
       /\ \A m \in messages :
             m.status = "read" =>
                 \A n \in messages' : n.id = m.id => n.status = "read"]_vars

\* A customer message is read and carries an edited content, next to a
\* message of the business in status sent.
W_StatusNeverRegresses ==
    /\ \E m \in messages : m.status = "read" /\ m.content = "edited"
    /\ \E m \in messages : m.sender_type = "business" /\ m.status = "sent"
====
